---------------------------- MODULE Spec2Model ----------------------------
(***************************************************************************)
(* Real-time snore detection loop of Snore_Detection/src/realtime:         *)
(* RealtimeSnoreDetector.start_detection / process_audio_chunk /           *)
(* stop_detection, as configured by the entry point realtime_main.main.    *)
(*                                                                         *)
(* Scores and the threshold ratio are fixed-point hundredths (0.05 is 5,   *)
(* 0.5 is 50), so 1 - threshold is 100 - threshold.  Samples are numbered  *)
(* in arrival order.  The sample rate is scaled down so that one hop is a  *)
(* single sample; chunk, hop and buffer sizes keep the code's formulas.    *)
(*                                                                         *)
(* Spec and FairSpec are the detection loop.  Five smaller specifications  *)
(* follow it: BufSpec (the ring buffer and the window), FeatSpec (feature  *)
(* extraction, real-time and offline), EntrySpec (the entry-point process  *)
(* and the vibration controller), BatchSpec (the offline batch over a      *)
(* directory) and WinSpec (windowing for every chunk duration and          *)
(* overlap).                                                               *)
(***************************************************************************)
EXTENDS Integers, Sequences, FiniteSets, TLC

VARIABLES
    pc,                     \* position of the thread running start_detection
    is_running,             \* self.is_running
    audio_stream,           \* self.audio_stream: "None", "stopped", "active", "closed"
    pyaudio_instance,       \* self.pyaudio_instance: "None", "live", "terminated"
    audio_buffer,           \* self.audio_buffer, a deque(maxlen = 3 * SR)
    snore_count,            \* self.snore_count
    snore_threshold_count,  \* self.snore_threshold_count (--min-snore-count)
    threshold,              \* self.threshold (--threshold), in hundredths
    prediction,             \* local prediction of the last classified window
    is_snore,               \* local is_snore of the last classified window
    hist,                   \* history of the run and the counters that bound it
    audio_chunk,            \* local audio_chunk: the window taken from the buffer
    features,               \* the feature tensor of extract_features / preprocess_file
    controller,             \* the vibration controller object
    entry                   \* the entry-point process: arguments, platform, exit

\* what the detection loop never touches
aux_vars == <<audio_chunk, features, controller, entry>>

vars == <<pc, is_running, audio_stream, pyaudio_instance, audio_buffer,
          snore_count, snore_threshold_count, threshold, prediction,
          is_snore, hist, audio_chunk, features, controller, entry>>

---------------------------------------------------------------------------
(* Bounds of the model *)

\* loop iterations started over a run of the model (all sessions)
MaxIter == 5
\* calls of start_detection on one detector
MaxSessions == 2
\* largest --min-snore-count tried
MaxThreshold == 3
\* the retry bound the specification asks for (the code has none)
ReadRetryBound == 2
\* samples pushed into the ring buffer over a run of BufSpec
MaxPushed == 8
\* samples one push carries in BufSpec
MaxFrames == 2
\* windows taken between two pushes in BufSpec
MaxWindows == 2
\* largest config.N_MELS tried in FeatSpec
MaxMels == 2
\* most time columns of a raw feature matrix in FeatSpec
MaxCols == 3
\* callback invocations in one session of EntrySpec
MaxAlerts == 2
\* files in the directory listing of BatchSpec
MaxFiles == 4
\* reads of the capture stream over a run of WinSpec
MaxReads == 6

---------------------------------------------------------------------------
(* Configuration *)

\* config.SR, scaled down (the code's value is a sample rate in Hz)
SR == 2
\* chunk_duration, default of __init__ and of --chunk-duration, in seconds
ChunkDuration == 1
\* overlap, default of __init__ and of --overlap, in hundredths
OverlapPct == 50
\* seconds of audio the deque keeps
BufferSeconds == 3

\* int(SR * chunk_duration)
chunk_size == SR * ChunkDuration
\* int(SR * chunk_duration * (1 - overlap))
hop_size == (SR * ChunkDuration * (100 - OverlapPct)) \div 100
\* deque(maxlen=int(SR * 3))
buffer_maxlen == SR * BufferSeconds

\* --min-snore-count is any int argparse accepts; no validation follows
MinSnoreCounts == 0..MaxThreshold
\* --threshold values tried, in hundredths
Thresholds == {30, 50}
\* classifier outputs tried, in hundredths
Scores == {5, 50, 70, 95}

---------------------------------------------------------------------------
(* Pure helpers *)

\* the smaller of two numbers
Min(a, b) == IF a <= b THEN a ELSE b

\* variant: a full deque refuses the new item instead of dropping the oldest
DequeAppendKeepOldest(buf, x) ==
    IF Len(buf) >= buffer_maxlen THEN buf ELSE Append(buf, x)
\* deque.append on a deque with maxlen: a full deque drops its leftmost item
DequeAppend(buf, x) ==
    IF Len(buf) >= buffer_maxlen THEN Append(Tail(buf), x) ELSE Append(buf, x)

RECURSIVE DequeExtend(_, _)
\* deque.extend: append the items one by one, in order
DequeExtend(buf, xs) ==
    IF xs = << >> THEN buf
    ELSE DequeExtend(DequeAppend(buf, Head(xs)), Tail(xs))

\* variant: the window cut from the old end of the buffer
SnapshotOldest(buf, n) ==
    IF Len(buf) <= n THEN buf ELSE SubSeq(buf, 1, n)
\* line 242: list(self.audio_buffer)[-n:], a copy of the last n items (of all
\* items when there are fewer; n is chunk_size, at least 1 here)
Snapshot(buf, n) ==
    IF Len(buf) <= n THEN buf ELSE SubSeq(buf, Len(buf) - n + 1, Len(buf))

\* variant: np.pad(audio_chunk, (n - len, 0)), zeros in front
PadChunkLeft(chunk, n) ==
    IF Len(chunk) < n THEN [i \in 1..(n - Len(chunk)) |-> 0] \o chunk
    ELSE chunk
\* lines 126-132: np.pad(audio_chunk, (0, n - len)) when the chunk is short
PadChunk(chunk, n) ==
    IF Len(chunk) < n THEN chunk \o [i \in 1..(n - Len(chunk)) |-> 0]
    ELSE chunk

\* variant: a read that hands over the last sample of the previous read again
ReadSamplesOverlapping(from) == [i \in 1..hop_size |-> from + i - 1]
\* the hop_size samples one successful read returns, numbered from `from`
ReadSamples(from) == [i \in 1..hop_size |-> from + i]

\* variant: the boundary score counted as positive
ClassifyInclusive(score, thr) == score <= 100 - thr
\* prediction < (1 - self.threshold)
Classify(score, thr) == score < 100 - thr

\* lines 143-146: the counter after a classified window
CountAfterWindow(count, positive) == IF positive THEN count + 1 ELSE 0

\* variant: the trigger one window late
TriggerReachedStrict(count, n) == count > n
\* line 149: self.snore_count >= self.snore_threshold_count
TriggerReached(count, n) == count >= n

\* variant: a failed window treated as a negative one
CountResetOnFailedWindow(count) == 0
\* the counter after predict raised: lines 143-146 are never reached
CountAfterFailedWindow(count) == count

\* lines 263-264: the trigger notice is printed when the counter, read after
\* process_audio_chunk has returned, equals the threshold count
NoticePrinted(count, n) == count = n

\* the counter after the callback returned: line 152
CountAfterAlert(count) == 0

\* variant: no inner handler, the error ends the loop
InnerExceptUnwinds == "finally"
\* where an exception of the inner try lands: the except clause of line 268
InnerExceptTarget == "except"

\* variant: a loop that never looks at is_running
LoopIgnoresFlag(running) == TRUE
\* while self.is_running
LoopContinues(running) == running

\* variant: a failed open that falls through to the loop
OpenFailedContinues == "start_stream"
\* where a failed open leaves the thread: return of line 214
OpenFailedTarget == "returned"

\* variant: stop_detection without stop_stream and close
StreamLeftOpen(s) == s
\* stop_detection, lines 285-292, on the three fields it touches
StoppedStream(s) == IF s = "None" THEN "None" ELSE "closed"
StoppedPyAudio(p) == IF p = "None" THEN "None" ELSE "terminated"

\* no controller object: vibration_controller before it is created
NoController ==
    [class |-> "None", hw |-> FALSE, is_vibrating |-> FALSE, motor |-> "off"]

---------------------------------------------------------------------------
(* hist records what the claims speak of; the code has no such fields:      *)
(*   run            consecutive windows classified positive since the       *)
(*                  session started, the last negative window or the last   *)
(*                  alert (a window whose classification raised is no       *)
(*                  window)                                                  *)
(*   fired          callback invocations for the current window             *)
(*   notice         the trigger notice was printed for the current window   *)
(*   skipped        a classification raised while the counter was non-zero  *)
(*                  and the counter has not been reset since                *)
(*   did_read, did_classify, did_alert   what this session has done         *)
(*   read_failures  failed reads in a row                                   *)
(*   err            the error the inner handler is handling                 *)
(*   stop_requested, classified_after_stop   a stop request or interrupt    *)
(*                  arrived in this session; windows classified after it    *)
(*   exit_cause     why the loop ended                                      *)
(*   open_failed    the open of this session failed                         *)
(*   sessions, iter, pushed   calls of start_detection, loop iterations     *)
(*                  started, samples read (samples are numbered by arrival) *)
(* stop_stream, close and terminate are taken not to raise.                 *)

(* Positions of the thread inside the try block of lines 229-281 *)
LoopPcs == {"loop_head", "read", "predict", "trigger", "callback",
            "display", "sleep", "except"}

Init ==
    /\ pc = "idle"
    /\ is_running = FALSE
    /\ audio_stream = "None"
    /\ pyaudio_instance = "None"
    /\ audio_buffer = << >>
    /\ snore_count = 0
    /\ snore_threshold_count \in MinSnoreCounts
    /\ threshold \in Thresholds
    /\ prediction = 0
    /\ is_snore = FALSE
    /\ hist = [ run |-> 0, fired |-> 0, did_alert |-> FALSE,
                did_classify |-> FALSE, did_read |-> FALSE,
                read_failures |-> 0, err |-> "none",
                stop_requested |-> FALSE, classified_after_stop |-> 0,
                exit_cause |-> "none", open_failed |-> FALSE,
                sessions |-> 0, iter |-> 0, pushed |-> 0,
                skipped |-> FALSE, notice |-> FALSE ]
    /\ audio_chunk = << >>
    /\ features = << >>
    /\ controller = NoController
    /\ entry = "None"

---------------------------------------------------------------------------
(* start_detection up to the loop *)

\* lines 182-187: guard, is_running = True, PyAudio(); a new session begins
StartDetection ==
    /\ pc \in {"idle", "returned"}
    /\ ~is_running
    /\ hist.sessions < MaxSessions
    /\ is_running' = TRUE
    /\ pyaudio_instance' = "live"
    /\ pc' = "open"
    /\ hist' = [hist EXCEPT !.run = 0, !.fired = 0, !.did_alert = FALSE,
                            !.notice = FALSE,
                            !.did_classify = FALSE, !.did_read = FALSE,
                            !.read_failures = 0,
                            !.err = "none", !.stop_requested = FALSE,
                            !.classified_after_stop = 0,
                            !.exit_cause = "none", !.open_failed = FALSE,
                            !.sessions = @ + 1]
    /\ UNCHANGED aux_vars
    /\ UNCHANGED <<audio_stream, audio_buffer, snore_count,
                   snore_threshold_count, threshold, prediction, is_snore>>

\* lines 201-209: open(..., start=False) succeeds
OpenStreamOk ==
    /\ pc = "open"
    /\ audio_stream' = "stopped"
    /\ pc' = "start_stream"
    /\ UNCHANGED aux_vars
    /\ UNCHANGED <<is_running, pyaudio_instance, audio_buffer, snore_count,
                   snore_threshold_count, threshold, prediction, is_snore,
                   hist>>

\* lines 210-214: open raises; is_running = False; return
OpenStreamFail ==
    /\ pc = "open"
    /\ is_running' = FALSE
    /\ pc' = OpenFailedTarget
    /\ hist' = [hist EXCEPT !.open_failed = TRUE]
    /\ UNCHANGED aux_vars
    /\ UNCHANGED <<audio_stream, pyaudio_instance, audio_buffer, snore_count,
                   snore_threshold_count, threshold, prediction, is_snore>>

\* lines 217-227: start_stream(), then the try block is entered
StartStream ==
    /\ pc = "start_stream"
    /\ audio_stream' = "active"
    /\ pc' = "loop_head"
    /\ UNCHANGED aux_vars
    /\ UNCHANGED <<is_running, pyaudio_instance, audio_buffer, snore_count,
                   snore_threshold_count, threshold, prediction, is_snore,
                   hist>>

---------------------------------------------------------------------------
(* the loop of lines 230-274 *)

\* line 230, condition true
LoopEnter ==
    /\ pc = "loop_head"
    /\ LoopContinues(is_running)
    /\ hist.iter < MaxIter
    /\ pc' = "read"
    /\ hist' = [hist EXCEPT !.iter = @ + 1]
    /\ UNCHANGED aux_vars
    /\ UNCHANGED <<is_running, audio_stream, pyaudio_instance, audio_buffer,
                   snore_count, snore_threshold_count, threshold, prediction,
                   is_snore>>

\* line 230, condition false: the loop ends and the finally clause runs
LoopExit ==
    /\ pc = "loop_head"
    /\ ~LoopContinues(is_running)
    /\ pc' = "finally"
    /\ hist' = [hist EXCEPT !.exit_cause = "stop"]
    /\ UNCHANGED aux_vars
    /\ UNCHANGED <<is_running, audio_stream, pyaudio_instance, audio_buffer,
                   snore_count, snore_threshold_count, threshold, prediction,
                   is_snore>>

\* lines 233-240: read returns hop_size samples, the buffer is extended and
\* its length is compared with chunk_size
ReadOk ==
    /\ pc = "read"
    /\ audio_stream = "active"
    /\ audio_buffer' = DequeExtend(audio_buffer, ReadSamples(hist.pushed))
    /\ pc' = IF Len(audio_buffer') >= chunk_size THEN "predict" ELSE "sleep"
    /\ hist' = [hist EXCEPT !.pushed = @ + hop_size, !.did_read = TRUE,
                            !.read_failures = 0]
    /\ UNCHANGED aux_vars
    /\ UNCHANGED <<is_running, audio_stream, pyaudio_instance, snore_count,
                   snore_threshold_count, threshold, prediction, is_snore>>

\* line 233 raises (always on a closed stream), caught at line 268
ReadFail ==
    /\ pc = "read"
    /\ pc' = InnerExceptTarget
    /\ hist' = [hist EXCEPT !.err = "read", !.read_failures = @ + 1]
    /\ UNCHANGED aux_vars
    /\ UNCHANGED <<is_running, audio_stream, pyaudio_instance, audio_buffer,
                   snore_count, snore_threshold_count, threshold, prediction,
                   is_snore>>

\* process_audio_chunk, lines 126-146: predict returns a score, the window is
\* classified and the counter updated
PredictOk ==
    /\ pc = "predict"
    /\ \E score \in Scores :
         /\ prediction' = score
         /\ is_snore' = Classify(score, threshold)
         /\ snore_count' = CountAfterWindow(snore_count, is_snore')
         /\ hist' = [hist EXCEPT
                !.did_classify = TRUE,
                !.fired = 0, !.notice = FALSE,
                !.run = IF is_snore'
                          THEN (IF hist.fired > 0 THEN 0 ELSE @) + 1
                          ELSE 0,
                !.skipped = IF snore_count' = 0 THEN FALSE ELSE @,
                !.classified_after_stop =
                    IF hist.stop_requested THEN @ + 1 ELSE @]
    /\ pc' = "trigger"
    /\ UNCHANGED aux_vars
    /\ UNCHANGED <<is_running, audio_stream, pyaudio_instance, audio_buffer,
                   snore_threshold_count, threshold>>

\* line 135 raises (feature extraction or model.predict), caught at line 268
PredictFail ==
    /\ pc = "predict"
    /\ snore_count' = CountAfterFailedWindow(snore_count)
    /\ pc' = InnerExceptTarget
    /\ hist' = [hist EXCEPT !.err = "predict", !.fired = 0,
                            !.notice = FALSE,
                            !.run = IF hist.fired > 0 THEN 0 ELSE @,
                            !.skipped = @ \/ snore_count' > 0]
    /\ UNCHANGED aux_vars
    /\ UNCHANGED <<is_running, audio_stream, pyaudio_instance, audio_buffer,
                   snore_threshold_count, threshold, prediction, is_snore>>

\* lines 149-151: the threshold is reached and the callback is invoked
\* (every entry point constructs the detector with a vibration_callback)
TriggerFire ==
    /\ pc = "trigger"
    /\ TriggerReached(snore_count, snore_threshold_count)
    /\ pc' = "callback"
    /\ hist' = [hist EXCEPT !.fired = @ + 1, !.did_alert = TRUE]
    /\ UNCHANGED aux_vars
    /\ UNCHANGED <<is_running, audio_stream, pyaudio_instance, audio_buffer,
                   snore_count, snore_threshold_count, threshold, prediction,
                   is_snore>>

\* line 149 false: process_audio_chunk returns
TriggerSkip ==
    /\ pc = "trigger"
    /\ ~TriggerReached(snore_count, snore_threshold_count)
    /\ pc' = "display"
    /\ UNCHANGED aux_vars
    /\ UNCHANGED <<is_running, audio_stream, pyaudio_instance, audio_buffer,
                   snore_count, snore_threshold_count, threshold, prediction,
                   is_snore, hist>>

\* lines 151-154: the callback returns, the counter is reset
CallbackReturn ==
    /\ pc = "callback"
    /\ snore_count' = CountAfterAlert(snore_count)
    /\ pc' = "display"
    /\ hist' = [hist EXCEPT !.skipped = FALSE]
    /\ UNCHANGED aux_vars
    /\ UNCHANGED <<is_running, audio_stream, pyaudio_instance, audio_buffer,
                   snore_threshold_count, threshold, prediction, is_snore>>

\* line 151 raises (the actuator call fails), caught at line 268
CallbackFail ==
    /\ pc = "callback"
    /\ pc' = InnerExceptTarget
    /\ hist' = [hist EXCEPT !.err = "callback"]
    /\ UNCHANGED aux_vars
    /\ UNCHANGED <<is_running, audio_stream, pyaudio_instance, audio_buffer,
                   snore_count, snore_threshold_count, threshold, prediction,
                   is_snore>>

\* lines 246-266: the status line
Display ==
    /\ pc = "display"
    /\ pc' = "sleep"
    /\ hist' = [hist EXCEPT
                  !.notice = NoticePrinted(snore_count, snore_threshold_count)]
    /\ UNCHANGED aux_vars
    /\ UNCHANGED <<is_running, audio_stream, pyaudio_instance, audio_buffer,
                   snore_count, snore_threshold_count, threshold, prediction,
                   is_snore>>

\* line 274
Sleep ==
    /\ pc = "sleep"
    /\ pc' = "loop_head"
    /\ UNCHANGED aux_vars
    /\ UNCHANGED <<is_running, audio_stream, pyaudio_instance, audio_buffer,
                   snore_count, snore_threshold_count, threshold, prediction,
                   is_snore, hist>>

\* lines 268-271: message, sleep(0.1), continue
Backoff ==
    /\ pc = "except"
    /\ pc' = "loop_head"
    /\ hist' = [hist EXCEPT !.err = "none"]
    /\ UNCHANGED aux_vars
    /\ UNCHANGED <<is_running, audio_stream, pyaudio_instance, audio_buffer,
                   snore_count, snore_threshold_count, threshold, prediction,
                   is_snore>>

\* an exception raised inside the handler of lines 268-271 escapes the inner
\* try and is caught at line 278
HandlerRaises ==
    /\ pc = "except"
    /\ pc' = "finally"
    /\ hist' = [hist EXCEPT !.exit_cause = "runtime_error"]
    /\ UNCHANGED aux_vars
    /\ UNCHANGED <<is_running, audio_stream, pyaudio_instance, audio_buffer,
                   snore_count, snore_threshold_count, threshold, prediction,
                   is_snore>>

\* KeyboardInterrupt anywhere in the try block, caught at line 276
Interrupt ==
    /\ pc \in LoopPcs
    /\ pc' = "finally"
    /\ hist' = [hist EXCEPT !.exit_cause = "interrupt",
                            !.stop_requested = TRUE]
    /\ UNCHANGED aux_vars
    /\ UNCHANGED <<is_running, audio_stream, pyaudio_instance, audio_buffer,
                   snore_count, snore_threshold_count, threshold, prediction,
                   is_snore>>

\* stop_detection, lines 285-292, called by another thread while the loop runs
StopRequest ==
    /\ pc \in LoopPcs
    /\ is_running
    /\ is_running' = FALSE
    /\ audio_stream' = StoppedStream(audio_stream)
    /\ pyaudio_instance' = StoppedPyAudio(pyaudio_instance)
    /\ hist' = [hist EXCEPT !.stop_requested = TRUE]
    /\ UNCHANGED aux_vars
    /\ UNCHANGED <<pc, audio_buffer, snore_count, snore_threshold_count,
                   threshold, prediction, is_snore>>

\* lines 280-281: the finally clause calls stop_detection, then
\* start_detection returns
Finally ==
    /\ pc = "finally"
    /\ is_running' = FALSE
    /\ audio_stream' = StoppedStream(audio_stream)
    /\ pyaudio_instance' = StoppedPyAudio(pyaudio_instance)
    /\ pc' = "returned"
    /\ UNCHANGED aux_vars
    /\ UNCHANGED <<audio_buffer, snore_count, snore_threshold_count,
                   threshold, prediction, is_snore, hist>>

\* the steps of the thread inside start_detection
ThreadStep ==
    \/ OpenStreamOk \/ OpenStreamFail \/ StartStream
    \/ LoopEnter \/ LoopExit
    \/ ReadOk \/ ReadFail
    \/ PredictOk \/ PredictFail
    \/ TriggerFire \/ TriggerSkip
    \/ CallbackReturn \/ CallbackFail
    \/ Display \/ Sleep \/ Backoff \/ HandlerRaises
    \/ Finally

Next ==
    \/ StartDetection
    \/ ThreadStep
    \/ Interrupt
    \/ StopRequest

Spec == Init /\ [][Next]_vars

\* the thread inside start_detection is scheduled and each of its blocking
\* calls (read, the callback, sleep) returns or raises
FairSpec == Spec /\ WF_vars(ThreadStep)

---------------------------------------------------------------------------
(* The ring buffer and the window taken from it, on their own: BufSpec      *)
(* pushes frames of arbitrary sample values (0 is kept for the padding) and *)
(* takes windows between the pushes.  hist records here                     *)
(*   all      every sample pushed so far, in arrival order                  *)
(*   windows  the windows taken since the last push                         *)
(*   raw      the chunk process_audio_chunk was called with                 *)
(*   direct   the chunk came from a caller other than the loop              *)

\* sample values pushed in BufSpec
SampleValues == {1, 2}
\* the frames one push can carry
Frames == UNION {[1..k -> SampleValues] : k \in 1..MaxFrames}

\* the detector right after __init__, lines 51-61
BufInit ==
    /\ pc = "buffer"
    /\ is_running = FALSE
    /\ audio_stream = "None"
    /\ pyaudio_instance = "None"
    /\ audio_buffer = << >>
    /\ snore_count = 0
    /\ snore_threshold_count = 3
    /\ threshold = 50
    /\ prediction = 0
    /\ is_snore = FALSE
    /\ hist = [all |-> << >>, windows |-> << >>, raw |-> << >>,
               direct |-> FALSE]
    /\ audio_chunk = << >>
    /\ features = << >>
    /\ controller = NoController
    /\ entry = "None"

\* line 237 (and line 168): self.audio_buffer.extend(audio_chunk)
BufPush ==
    /\ pc = "buffer"
    /\ \E xs \in Frames :
         /\ Len(hist.all) + Len(xs) <= MaxPushed
         /\ audio_buffer' = DequeExtend(audio_buffer, xs)
         /\ hist' = [hist EXCEPT !.all = @ \o xs, !.windows = << >>]
    /\ UNCHANGED <<pc, is_running, audio_stream, pyaudio_instance,
                   snore_count, snore_threshold_count, threshold, prediction,
                   is_snore, audio_chunk, features, controller, entry>>

\* lines 240-242: the loop takes a window once chunk_size samples are there
BufTakeWindow ==
    /\ pc = "buffer"
    /\ Len(audio_buffer) >= chunk_size
    /\ Len(hist.windows) < MaxWindows
    /\ audio_chunk' = Snapshot(audio_buffer, chunk_size)
    /\ hist' = [hist EXCEPT !.windows = Append(@, audio_chunk'),
                            !.direct = FALSE]
    /\ pc' = "window"
    /\ UNCHANGED <<is_running, audio_stream, pyaudio_instance, audio_buffer,
                   snore_count, snore_threshold_count, threshold, prediction,
                   is_snore, features, controller, entry>>

\* process_audio_chunk is public: a caller may hand it what the buffer holds
\* before chunk_size samples have arrived (line 119)
BufDirectChunk ==
    /\ pc = "buffer"
    /\ Len(audio_buffer) < chunk_size
    /\ Len(hist.windows) < MaxWindows
    /\ audio_chunk' = Snapshot(audio_buffer, chunk_size)
    /\ hist' = [hist EXCEPT !.windows = Append(@, audio_chunk'),
                            !.direct = TRUE]
    /\ pc' = "window"
    /\ UNCHANGED <<is_running, audio_stream, pyaudio_instance, audio_buffer,
                   snore_count, snore_threshold_count, threshold, prediction,
                   is_snore, features, controller, entry>>

\* lines 126-132: process_audio_chunk pads a short chunk before it extracts
\* the features
BufPad ==
    /\ pc = "window"
    /\ audio_chunk' = PadChunk(audio_chunk, chunk_size)
    /\ hist' = [hist EXCEPT !.raw = audio_chunk]
    /\ pc' = "padded"
    /\ UNCHANGED <<is_running, audio_stream, pyaudio_instance, audio_buffer,
                   snore_count, snore_threshold_count, threshold, prediction,
                   is_snore, features, controller, entry>>

\* process_audio_chunk returns; the caller goes on
BufReturn ==
    /\ pc = "padded"
    /\ pc' = "buffer"
    /\ UNCHANGED <<is_running, audio_stream, pyaudio_instance, audio_buffer,
                   snore_count, snore_threshold_count, threshold, prediction,
                   is_snore, hist, audio_chunk, features, controller, entry>>

BufNext ==
    \/ BufPush
    \/ BufTakeWindow
    \/ BufDirectChunk
    \/ BufPad
    \/ BufReturn

BufSpec == BufInit /\ [][BufNext]_vars

---------------------------------------------------------------------------
(* Feature extraction, real-time (extract_features) and offline            *)
(* (preprocess_file): FeatSpec draws the two librosa outputs and runs the  *)
(* steps that follow them.  A matrix is a sequence of rows.  Its entries   *)
(* start as integers; normalisation yields exact values num / sqrt(den2),  *)
(* NaN or an infinity, as records.                                         *)

\* the two callers of the extractor
Paths == {"realtime", "offline"}
\* config.N_MFCC, scaled down
N_MFCC == 1
\* n_mels of librosa.feature.melspectrogram when the caller passes none
\* (128 in librosa), scaled down
DefaultMels == 2
\* config.TIME_STEPS, scaled down
TIME_STEPS == 2
\* config.N_MELS values tried
NMelsValues == 1..MaxMels
\* entries of the librosa outputs
FeatureValues == {0, 1}
\* time columns of the raw feature matrix
ColumnCounts == 1..MaxCols

\* mel rows: line 77 passes n_mels=N_MELS, utils.extract_mel_spectrogram
\* passes nothing
MelRows(path, n_mels) == IF path = "realtime" THEN n_mels ELSE DefaultMels

\* all matrices of r rows and c columns
Matrices(r, c) == [1..r -> [1..c -> FeatureValues]]

\* a finite value v
Num(v) == [nan |-> FALSE, inf |-> FALSE, num |-> v, den2 |-> 1]
NaN == [nan |-> TRUE, inf |-> FALSE, num |-> 0, den2 |-> 0]
Inf(a) == [nan |-> FALSE, inf |-> TRUE, num |-> a, den2 |-> 0]
\* a / sqrt(d2) in floating point: 0/0 is NaN, a/0 an infinity
Quot(a, d2) ==
    IF d2 = 0 THEN (IF a = 0 THEN NaN ELSE Inf(a))
    ELSE [nan |-> FALSE, inf |-> FALSE, num |-> a, den2 |-> d2]

RECURSIVE SeqSum(_)
SeqSum(xs) == IF xs = << >> THEN 0 ELSE Head(xs) + SeqSum(Tail(xs))
\* number of entries, their sum and the sum of their squares
Size(m) == SeqSum([i \in 1..Len(m) |-> Len(m[i])])
Total(m) == SeqSum([i \in 1..Len(m) |-> SeqSum(m[i])])
TotalSq(m) ==
    SeqSum([i \in 1..Len(m) |->
              SeqSum([j \in 1..Len(m[i]) |-> m[i][j] * m[i][j]])])
\* np.std(m) squared, times Size(m) squared: n * sum(x^2) - sum(x)^2
VarScaled(m) == Size(m) * TotalSq(m) - Total(m) * Total(m)
\* (x - np.mean(m)) / np.std(m) = (n * x - sum) / sqrt(n * sum(x^2) - sum^2)
ZScore(m, x) == Quot(Size(m) * x - Total(m), VarScaled(m))

\* np.concatenate((mfcc_features, mel_features), axis=0)
Concatenate(mfcc, mel) == mfcc \o mel

\* realtime_detection.py lines 83-88: divide only when std > 0
NormalizeGuarded(m) ==
    IF VarScaled(m) > 0
    THEN [i \in 1..Len(m) |-> [j \in 1..Len(m[i]) |-> ZScore(m, m[i][j])]]
    ELSE [i \in 1..Len(m) |-> [j \in 1..Len(m[i]) |-> Num(m[i][j])]]
\* utils.normalize_features, line 93: always divides
normalize_features(m) ==
    [i \in 1..Len(m) |-> [j \in 1..Len(m[i]) |-> ZScore(m, m[i][j])]]
\* the normalisation each path applies
Normalize(path, m) ==
    IF path = "realtime" THEN NormalizeGuarded(m) ELSE normalize_features(m)

\* variant: the time axis cut and padded at its front
FitTimeStepsFront(m) ==
    [i \in 1..Len(m) |->
       IF Len(m[i]) < TIME_STEPS
       THEN [j \in 1..(TIME_STEPS - Len(m[i])) |-> Num(0)] \o m[i]
       ELSE SubSeq(m[i], Len(m[i]) - TIME_STEPS + 1, Len(m[i]))]
\* realtime_detection.py lines 91-100, preprocess.py lines 34-41:
\* np.pad(x, ((0, 0), (0, pad_width))) or x[:, :TIME_STEPS]
FitTimeSteps(m) ==
    [i \in 1..Len(m) |->
       IF Len(m[i]) < TIME_STEPS
       THEN m[i] \o [j \in 1..(TIME_STEPS - Len(m[i])) |-> Num(0)]
       ELSE SubSeq(m[i], 1, TIME_STEPS)]

\* what each path returns: line 102 adds a batch axis of size 1
Returned(path, m) == IF path = "realtime" THEN <<m>> ELSE m

\* the librosa outputs of one window or file: N_MFCC cepstral rows and the
\* mel rows, over the same time columns
FeatInit ==
    /\ pc = "extract"
    /\ is_running = FALSE
    /\ audio_stream = "None"
    /\ pyaudio_instance = "None"
    /\ audio_buffer = << >>
    /\ snore_count = 0
    /\ snore_threshold_count = 3
    /\ threshold = 50
    /\ prediction = 0
    /\ is_snore = FALSE
    /\ hist = [combined |-> << >>, normalized |-> << >>]
    /\ audio_chunk = << >>
    /\ \E path \in Paths, n_mels \in NMelsValues, c \in ColumnCounts :
         \E mfcc \in Matrices(N_MFCC, c),
            mel \in Matrices(MelRows(path, n_mels), c) :
           features = [path |-> path, n_mels |-> n_mels, mfcc |-> mfcc,
                       mel |-> mel, x |-> << >>]
    /\ controller = NoController
    /\ entry = "None"

\* line 80 / preprocess.py line 29
FeatConcat ==
    /\ pc = "extract"
    /\ features' = [features EXCEPT
                      !.x = Concatenate(features.mfcc, features.mel)]
    /\ hist' = [hist EXCEPT !.combined = features'.x]
    /\ pc' = "combined"
    /\ UNCHANGED <<is_running, audio_stream, pyaudio_instance, audio_buffer,
                   snore_count, snore_threshold_count, threshold, prediction,
                   is_snore, audio_chunk, controller, entry>>

\* lines 83-88 / preprocess.py line 31
FeatNormalize ==
    /\ pc = "combined"
    /\ features' = [features EXCEPT !.x = Normalize(features.path, @)]
    /\ hist' = [hist EXCEPT !.normalized = features'.x]
    /\ pc' = "normalized"
    /\ UNCHANGED <<is_running, audio_stream, pyaudio_instance, audio_buffer,
                   snore_count, snore_threshold_count, threshold, prediction,
                   is_snore, audio_chunk, controller, entry>>

\* lines 91-100 / preprocess.py lines 34-41
FeatFit ==
    /\ pc = "normalized"
    /\ features' = [features EXCEPT !.x = FitTimeSteps(@)]
    /\ pc' = "fitted"
    /\ UNCHANGED <<is_running, audio_stream, pyaudio_instance, audio_buffer,
                   snore_count, snore_threshold_count, threshold, prediction,
                   is_snore, hist, audio_chunk, controller, entry>>

\* line 102 / preprocess.py line 43
FeatReturn ==
    /\ pc = "fitted"
    /\ features' = [features EXCEPT !.x = Returned(features.path, @)]
    /\ pc' = "returned"
    /\ UNCHANGED <<is_running, audio_stream, pyaudio_instance, audio_buffer,
                   snore_count, snore_threshold_count, threshold, prediction,
                   is_snore, hist, audio_chunk, controller, entry>>

FeatNext ==
    \/ FeatConcat
    \/ FeatNormalize
    \/ FeatFit
    \/ FeatReturn

FeatSpec == FeatInit /\ [][FeatNext]_vars

---------------------------------------------------------------------------
(* The entry points and the vibration controller: EntrySpec follows one     *)
(* process from its start to its exit.  start_detection is taken as a whole *)
(* here: it opens the capture device, invokes the callback some number of   *)
(* times and returns or raises; the loop inside it is Spec above.           *)
(*                                                                          *)
(* entry holds the arguments and the machine (name, model_exists,           *)
(* controller_type, is_pi, driver, duration), what the process has done     *)
(* (model_loaded, device, alerts, stop_called), how the last vibrate and    *)
(* the session ended, and the exit status (-1 while running).               *)
(* controller is NoController or the controller object: its class, whether *)
(* it drives hardware (self.GPIO / self.serial is not None), is_vibrating   *)
(* and the state of the motor.                                              *)

\* the three scripts that start real-time detection
EntryPoints == {"realtime_main", "start_monitoring", "realtime_detection"}
\* --vibration-controller choices, realtime_main.py line 43
ControllerTypes == {"auto", "raspberrypi", "arduino", "simulated"}
\* the driver library of the controller: its import raises ImportError
\* ("missing"), it raises something else while it is imported or set up
\* ("broken"), or it works ("ok")
Drivers == {"missing", "broken", "ok"}
\* --vibration-duration values tried, in tenths of a second; argparse takes
\* any float
Durations == {-5, 5}

\* the controller type each entry point asks for
RequestedTypes(name) ==
    IF name = "realtime_main" THEN ControllerTypes
    ELSE IF name = "start_monitoring" THEN {"simulated"}
    ELSE {"none"}
\* the duration each entry point passes to vibrate
RequestedDurations(name) ==
    IF name = "realtime_main" THEN Durations ELSE {5}

\* the outcome of a constructor that raised: no object
Raised ==
    [class |-> "raised", hw |-> FALSE, is_vibrating |-> FALSE, motor |-> "off"]
\* VibrationController.__init__ on top of the subclass fields
NewController(class, hw) ==
    [class |-> class, hw |-> hw, is_vibrating |-> FALSE, motor |-> "off"]

\* RaspberryPiVibrationController.__init__, lines 41-54: only ImportError is
\* caught; any other exception leaves the constructor
RaspberryPiInit(driver) ==
    IF driver = "ok" THEN NewController("raspberrypi", TRUE)
    ELSE IF driver = "missing" THEN NewController("raspberrypi", FALSE)
    ELSE Raised
\* ArduinoVibrationController.__init__, lines 90-103: ImportError and
\* Exception are caught, self.serial stays None
ArduinoInit(driver) ==
    IF driver = "ok" THEN NewController("arduino", TRUE)
    ELSE NewController("arduino", FALSE)
\* lines 153-166: 'auto' is raspberrypi on a Raspberry Pi, simulated elsewhere
ResolveType(type, is_pi) ==
    IF type = "auto" THEN (IF is_pi THEN "raspberrypi" ELSE "simulated")
    ELSE type
\* create_vibration_controller, lines 142-173: a controller, or Raised
create_vibration_controller(type, is_pi, driver) ==
    IF ResolveType(type, is_pi) = "raspberrypi" THEN RaspberryPiInit(driver)
    ELSE IF ResolveType(type, is_pi) = "arduino" THEN ArduinoInit(driver)
    ELSE NewController("simulated", FALSE)

\* stop(), lines 72-76 and 122-126 (pass for the simulated class): the flag
\* is cleared first, then the hardware is told to stop, which can fail
ControllerStop(c, hw_ok) ==
    IF c.class = "simulated" THEN c
    ELSE [c EXCEPT !.is_vibrating = FALSE,
                   !.motor = IF c.hw /\ ~hw_ok THEN @ ELSE "off"]

\* the exit status when the model file is missing: realtime_main.py line 62
\* and start_monitoring.py line 33 return from main, realtime_detection.py
\* line 313 calls exit(1)
MissingModelStatus(name) == IF name = "realtime_detection" THEN 1 ELSE 0

\* where the process goes once start_detection is over: the finally clause
\* of realtime_main.py 103 and start_monitoring.py 69, or the end of the
\* script
AfterSession(name) ==
    IF name = "realtime_detection" THEN "exited" ELSE "main_finally"
\* variant: a finally clause that ends after stop_detection
AfterStopDetectionNoActuator(name) == "exited"
\* what follows detector.stop_detection() in the finally clause:
\* realtime_main.py lines 105-106 stop the controller, start_monitoring.py
\* line 71 only prints
AfterStopDetection(name) ==
    IF name = "realtime_main" THEN "main_stop_actuator" ELSE "exited"

\* the exit status of a process that ends with or without an exception
ExitStatus(pending) == IF pending THEN 1 ELSE 0

EntryInit ==
    /\ pc = "startup"
    /\ is_running = FALSE
    /\ audio_stream = "None"
    /\ pyaudio_instance = "None"
    /\ audio_buffer = << >>
    /\ snore_count = 0
    /\ snore_threshold_count = 3
    /\ threshold = 50
    /\ prediction = 0
    /\ is_snore = FALSE
    /\ hist = [run |-> 0]
    /\ audio_chunk = << >>
    /\ features = << >>
    /\ controller = NoController
    /\ \E name \in EntryPoints, exists \in BOOLEAN, is_pi \in BOOLEAN,
          driver \in Drivers :
         \E type \in RequestedTypes(name), d \in RequestedDurations(name) :
           entry = [name |-> name, model_exists |-> exists,
                    controller_type |-> type, is_pi |-> is_pi,
                    driver |-> driver, duration |-> d,
                    model_loaded |-> FALSE, device |-> "none",
                    alerts |-> 0, last_vibrate |-> "none",
                    cause |-> "none", pending |-> FALSE,
                    create_raised |-> FALSE,
                    stop_called |-> FALSE, device_at_stop |-> "none",
                    status |-> -1]

\* the frame of every step of the process
EntryFrame ==
    UNCHANGED <<is_running, audio_stream, pyaudio_instance, audio_buffer,
                snore_count, snore_threshold_count, threshold, prediction,
                is_snore, hist, audio_chunk, features>>

\* the process ends
Exited(e, pending) == [e EXCEPT !.pending = pending,
                                !.status = ExitStatus(pending)]

\* realtime_main.py 59-62, start_monitoring.py 28-33,
\* realtime_detection.py 310-313: the model file does not exist
EntryModelMissing ==
    /\ pc = "startup"
    /\ ~entry.model_exists
    /\ pc' = "exited"
    /\ entry' = [entry EXCEPT !.status = MissingModelStatus(entry.name)]
    /\ UNCHANGED controller
    /\ EntryFrame

\* the model file exists: on to the controller (or, in realtime_detection.py,
\* straight to the detector)
EntryModelFound ==
    /\ pc = "startup"
    /\ entry.model_exists
    /\ pc' = IF entry.name = "realtime_detection" THEN "load" ELSE "create"
    /\ UNCHANGED <<controller, entry>>
    /\ EntryFrame

\* realtime_main.py line 66, start_monitoring.py line 39: the controller is
\* built
EntryCreateController ==
    /\ pc = "create"
    /\ create_vibration_controller(entry.controller_type, entry.is_pi,
                                   entry.driver) # Raised
    /\ controller' = create_vibration_controller(entry.controller_type,
                                                 entry.is_pi, entry.driver)
    /\ pc' = "load"
    /\ UNCHANGED entry
    /\ EntryFrame

\* the constructor raises: nothing in main catches it, the process ends with
\* a traceback
EntryCreateRaises ==
    /\ pc = "create"
    /\ create_vibration_controller(entry.controller_type, entry.is_pi,
                                   entry.driver) = Raised
    /\ pc' = "exited"
    /\ entry' = Exited([entry EXCEPT !.create_raised = TRUE], TRUE)
    /\ UNCHANGED controller
    /\ EntryFrame

\* RealtimeSnoreDetector(...), realtime_detection.py line 40: load_model
\* returns the model
EntryLoadModel ==
    /\ pc = "load"
    /\ pc' = "session_start"
    /\ entry' = [entry EXCEPT !.model_loaded = TRUE]
    /\ UNCHANGED controller
    /\ EntryFrame

\* load_model raises (the file is no model): uncaught
EntryLoadModelFails ==
    /\ pc = "load"
    /\ pc' = "exited"
    /\ entry' = Exited(entry, TRUE)
    /\ UNCHANGED controller
    /\ EntryFrame

\* start_detection, lines 186-217: the capture device is opened and started
SessionStart ==
    /\ pc = "session_start"
    /\ pc' = "session"
    /\ entry' = [entry EXCEPT !.device = "open"]
    /\ UNCHANGED controller
    /\ EntryFrame

\* lines 210-214: open fails and start_detection returns
SessionOpenFails ==
    /\ pc = "session_start"
    /\ pc' = AfterSession(entry.name)
    /\ entry' = IF AfterSession(entry.name) = "exited"
                THEN Exited([entry EXCEPT !.cause = "open_failed"], FALSE)
                ELSE [entry EXCEPT !.cause = "open_failed"]
    /\ UNCHANGED controller
    /\ EntryFrame

\* line 187: PyAudio() raises before the try block; the exception leaves
\* start_detection
SessionRaises ==
    /\ pc = "session_start"
    /\ pc' = AfterSession(entry.name)
    /\ entry' = IF AfterSession(entry.name) = "exited"
                THEN Exited([entry EXCEPT !.cause = "raised"], TRUE)
                ELSE [entry EXCEPT !.cause = "raised", !.pending = TRUE]
    /\ UNCHANGED controller
    /\ EntryFrame

\* vibrate, lines 58-66 / 107-116 / 134: the simulated path prints; the
\* hardware path sets is_vibrating and drives the motor, and an exception of
\* the driver is caught at line 69 / 119, after which vibrate returns
VibrateStart ==
    /\ pc = "session"
    /\ controller # NoController
    /\ entry.alerts < MaxAlerts
    /\ \E hw_ok \in BOOLEAN :
         IF ~controller.hw
         THEN /\ hw_ok
              /\ pc' = "sleeping"
              /\ UNCHANGED controller
              /\ entry' = [entry EXCEPT !.alerts = @ + 1,
                                        !.last_vibrate = "running"]
         ELSE /\ controller' = [controller EXCEPT
                                  !.is_vibrating = TRUE,
                                  !.motor = IF hw_ok THEN "on" ELSE @]
              /\ pc' = IF hw_ok THEN "sleeping" ELSE "session"
              /\ entry' = [entry EXCEPT
                             !.alerts = @ + 1,
                             !.last_vibrate =
                                IF hw_ok THEN "running" ELSE "returned"]
    /\ EntryFrame

\* time.sleep(duration) and, on the hardware path, self.stop(), lines 67-68 /
\* 117-118; lines 60-61 / 109-110 / 135 on the simulated path.  sleep raises
\* ValueError on a negative duration: caught at line 69 / 119 on the
\* hardware path, leaving vibrate on the simulated one
VibrateFinish ==
    /\ pc = "sleeping"
    /\ pc' = "session"
    /\ \E hw_ok \in BOOLEAN :
         IF ~controller.hw
         THEN /\ hw_ok
              /\ UNCHANGED controller
              /\ entry' = [entry EXCEPT
                             !.last_vibrate = IF entry.duration < 0
                                              THEN "raised" ELSE "returned"]
         ELSE /\ controller' = IF entry.duration < 0 THEN controller
                               ELSE ControllerStop(controller, hw_ok)
              /\ entry' = [entry EXCEPT !.last_vibrate = "returned"]
    /\ EntryFrame

\* Ctrl+C during time.sleep: KeyboardInterrupt is no Exception, it leaves
\* vibrate and the loop, start_detection handles it at lines 276-281 and
\* returns
VibrateInterrupted ==
    /\ pc = "sleeping"
    /\ pc' = AfterSession(entry.name)
    /\ entry' = IF AfterSession(entry.name) = "exited"
                THEN Exited([entry EXCEPT !.last_vibrate = "interrupted",
                                          !.cause = "interrupt",
                                          !.device = "closed"], FALSE)
                ELSE [entry EXCEPT !.last_vibrate = "interrupted",
                                   !.cause = "interrupt",
                                   !.device = "closed"]
    /\ UNCHANGED controller
    /\ EntryFrame

\* the loop ends (stop request, interrupt or runtime error), the finally
\* clause of line 280 releases the device and start_detection returns
SessionEnd ==
    /\ pc = "session"
    /\ \E cause \in {"stop", "interrupt", "runtime_error"} :
         entry' = IF AfterSession(entry.name) = "exited"
                  THEN Exited([entry EXCEPT !.cause = cause,
                                            !.device = "closed"], FALSE)
                  ELSE [entry EXCEPT !.cause = cause, !.device = "closed"]
    /\ pc' = AfterSession(entry.name)
    /\ UNCHANGED controller
    /\ EntryFrame

\* realtime_main.py line 104, start_monitoring.py line 70:
\* detector.stop_detection() in the finally clause
MainStopDetection ==
    /\ pc = "main_finally"
    /\ pc' = AfterStopDetection(entry.name)
    /\ entry' = IF AfterStopDetection(entry.name) = "exited"
                THEN Exited([entry EXCEPT
                               !.device = IF @ = "none" THEN @ ELSE "closed"],
                            entry.pending)
                ELSE [entry EXCEPT
                        !.device = IF @ = "none" THEN @ ELSE "closed"]
    /\ UNCHANGED controller
    /\ EntryFrame

\* realtime_main.py lines 105-107: vibration_controller.stop(), then the
\* process ends; an exception of the driver inside stop() leaves main
MainStopActuator ==
    /\ pc = "main_stop_actuator"
    /\ pc' = "exited"
    /\ \E hw_ok \in BOOLEAN :
         /\ (~controller.hw => hw_ok)
         /\ controller' = ControllerStop(controller, hw_ok)
         /\ entry' = Exited([entry EXCEPT !.stop_called = TRUE,
                                          !.device_at_stop = entry.device],
                            entry.pending \/ ~hw_ok)
    /\ EntryFrame

EntryNext ==
    \/ EntryModelMissing
    \/ EntryModelFound
    \/ EntryCreateController
    \/ EntryCreateRaises
    \/ EntryLoadModel
    \/ EntryLoadModelFails
    \/ SessionStart
    \/ SessionOpenFails
    \/ SessionRaises
    \/ VibrateStart
    \/ VibrateFinish
    \/ VibrateInterrupted
    \/ SessionEnd
    \/ MainStopDetection
    \/ MainStopActuator

EntrySpec == EntryInit /\ [][EntryNext]_vars

---------------------------------------------------------------------------
(* The offline batch, preprocess.preprocess_data: BatchSpec walks the files *)
(* of the training directories.  A file is "ok", "malformed" (librosa       *)
(* cannot load it or compute its spectra) or "other" (no .wav name).         *)
(* hist holds the listing (files), the index of the file in turn (i), the   *)
(* files whose failure was reported (reported), the files with a feature in *)
(* the list (kept) and whether an exception left preprocess_data (raised).  *)
(* features is the list of features collected, one token per file.          *)

\* the files a directory listing can hold
FileKinds == {"ok", "malformed", "other"}
\* directory listings tried
Listings == UNION {[1..n -> FileKinds] : n \in 1..MaxFiles}

\* utils.extract_mfcc / extract_mel_spectrogram, lines 43-51 and 71-79:
\* librosa.load and librosa.feature run unprotected; the functions return an
\* array or raise, never None
ExtractOutcome(kind) == IF kind = "ok" THEN "array" ELSE "raises"
\* preprocess_file, lines 19-43: the exception of an extractor passes
\* through, None is reported and answered with (None, None)
PreprocessFileOutcome(kind) ==
    IF ExtractOutcome(kind) = "raises" THEN "raises"
    ELSE IF ExtractOutcome(kind) = "None" THEN "none"
    ELSE "feature"

BatchInit ==
    /\ pc = "files"
    /\ is_running = FALSE
    /\ audio_stream = "None"
    /\ pyaudio_instance = "None"
    /\ audio_buffer = << >>
    /\ snore_count = 0
    /\ snore_threshold_count = 3
    /\ threshold = 50
    /\ prediction = 0
    /\ is_snore = FALSE
    /\ \E files \in Listings :
         hist = [files |-> files, i |-> 1, reported |-> {}, kept |-> {},
                 raised |-> FALSE]
    /\ audio_chunk = << >>
    /\ features = << >>
    /\ controller = NoController
    /\ entry = "None"

\* the frame of every step of the batch
BatchFrame ==
    UNCHANGED <<is_running, audio_stream, pyaudio_instance, audio_buffer,
                snore_count, snore_threshold_count, threshold, prediction,
                is_snore, audio_chunk, controller, entry>>

\* lines 57-59: a name that does not end in .wav is passed over
BatchOtherFile ==
    /\ pc = "files"
    /\ hist.i <= Len(hist.files)
    /\ hist.files[hist.i] = "other"
    /\ hist' = [hist EXCEPT !.i = @ + 1]
    /\ UNCHANGED <<pc, features>>
    /\ BatchFrame

\* lines 60-67: preprocess_file returns; a feature is appended, (None, None)
\* is skipped, and the loop goes on (the augmented copies of lines 70-106
\* come from the same file and are not told apart from its feature)
BatchFileDone ==
    /\ pc = "files"
    /\ hist.i <= Len(hist.files)
    /\ hist.files[hist.i] # "other"
    /\ PreprocessFileOutcome(hist.files[hist.i]) # "raises"
    /\ IF PreprocessFileOutcome(hist.files[hist.i]) = "feature"
       THEN /\ features' = Append(features, hist.i)
            /\ hist' = [hist EXCEPT !.i = @ + 1, !.kept = @ \cup {hist.i}]
       ELSE /\ features' = features
            /\ hist' = [hist EXCEPT !.i = @ + 1,
                                    !.reported = @ \cup {hist.i}]
    /\ UNCHANGED pc
    /\ BatchFrame

\* line 62: preprocess_file raises; preprocess_data has no handler, the
\* exception leaves it and the rest of the listing is never read
BatchFileRaises ==
    /\ pc = "files"
    /\ hist.i <= Len(hist.files)
    /\ hist.files[hist.i] # "other"
    /\ PreprocessFileOutcome(hist.files[hist.i]) = "raises"
    /\ hist' = [hist EXCEPT !.raised = TRUE]
    /\ pc' = "raised"
    /\ UNCHANGED features
    /\ BatchFrame

\* lines 110-123: the listing is exhausted, the data are split and saved
BatchFinish ==
    /\ pc = "files"
    /\ hist.i > Len(hist.files)
    /\ pc' = "done"
    /\ UNCHANGED <<hist, features>>
    /\ BatchFrame

BatchNext ==
    \/ BatchOtherFile
    \/ BatchFileDone
    \/ BatchFileRaises
    \/ BatchFinish

BatchSpec == BatchInit /\ [][BatchNext]_vars

---------------------------------------------------------------------------
(* The loop's windowing for any chunk duration and overlap: WinSpec draws   *)
(* the two constructor arguments and follows lines 230-243 (read, extend,   *)
(* length test, window); classification itself is in Spec.  hist holds the  *)
(* sizes __init__ computed (chunk_size, hop_size), the samples read so far  *)
(* (pushed, samples are numbered by arrival), the reads made (reads) and    *)
(* the sample each of the last two windows ended with (ends).               *)

\* chunk_duration values tried, in seconds (int(SR * 3) samples are buffered)
ChunkDurations == {1, 2, 4}
\* overlap values tried, in hundredths
OverlapPcts == {0, 50, 100}

\* line 46: int(SR * chunk_duration)
ChunkSizeOf(duration) == SR * duration
\* line 47: int(SR * chunk_duration * (1 - overlap))
HopSizeOf(duration, overlap) == (SR * duration * (100 - overlap)) \div 100

\* line 240: len(self.audio_buffer) >= self.chunk_size
WindowReady(buf, n) == Len(buf) >= n

WinInit ==
    /\ pc = "loop"
    /\ is_running = TRUE
    /\ audio_stream = "active"
    /\ pyaudio_instance = "live"
    /\ audio_buffer = << >>
    /\ snore_count = 0
    /\ snore_threshold_count = 3
    /\ threshold = 50
    /\ prediction = 0
    /\ is_snore = FALSE
    /\ \E duration \in ChunkDurations, overlap \in OverlapPcts :
         hist = [chunk_size |-> ChunkSizeOf(duration),
                 hop_size |-> HopSizeOf(duration, overlap),
                 pushed |-> 0, reads |-> 0, ends |-> << >>,
                 read_ok |-> FALSE]
    /\ audio_chunk = << >>
    /\ features = << >>
    /\ controller = NoController
    /\ entry = "None"

\* the frame of every step of WinSpec
WinFrame ==
    UNCHANGED <<is_running, audio_stream, pyaudio_instance, snore_count,
                snore_threshold_count, threshold, prediction, is_snore,
                features, controller, entry>>

\* lines 233-240: read returns hop_size samples, the buffer is extended and
\* its length is compared with chunk_size
WinRead ==
    /\ pc = "loop"
    /\ hist.reads < MaxReads
    /\ audio_buffer' =
         DequeExtend(audio_buffer,
                     [i \in 1..hist.hop_size |-> hist.pushed + i])
    /\ hist' = [hist EXCEPT !.pushed = @ + hist.hop_size, !.reads = @ + 1,
                            !.read_ok = TRUE]
    /\ pc' = IF WindowReady(audio_buffer', hist.chunk_size)
             THEN "window" ELSE "loop"
    /\ UNCHANGED audio_chunk
    /\ WinFrame

\* line 233 raises; lines 268-271
WinReadFails ==
    /\ pc = "loop"
    /\ hist.reads < MaxReads
    /\ hist' = [hist EXCEPT !.reads = @ + 1, !.read_ok = FALSE]
    /\ UNCHANGED <<pc, audio_buffer, audio_chunk>>
    /\ WinFrame

\* lines 242-243: the window is taken and handed to process_audio_chunk
WinClassify ==
    /\ pc = "window"
    /\ audio_chunk' = Snapshot(audio_buffer, hist.chunk_size)
    /\ hist' = [hist EXCEPT
                  !.ends = IF Len(@) < 2 THEN Append(@, hist.pushed)
                           ELSE <<@[2], hist.pushed>>]
    /\ pc' = "loop"
    /\ UNCHANGED audio_buffer
    /\ WinFrame

WinNext ==
    \/ WinRead
    \/ WinReadFails
    \/ WinClassify

WinSpec == WinInit /\ [][WinNext]_vars

---------------------------------------------------------------------------
(* Claims *)

\* C1: with threshold_count N >= 1, on the window that is the N-th
\* consecutive positive one (counted from session start, the last negative
\* window or the last alert) the callback is invoked exactly once, and the
\* counter is 0 when process_audio_chunk returns.
C1_AlertOnNthPositive ==
    /\ hist.fired <= 1
    /\ (snore_threshold_count >= 1 /\ hist.run = snore_threshold_count) =>
         /\ pc = "callback" => hist.fired = 1
         /\ (pc = "except" /\ hist.err = "callback") => hist.fired = 1
         /\ pc = "display" => (hist.fired = 1 /\ snore_count = 0)

\* three positive windows with threshold_count = 3: one alert, counter back at 0
C1_Witness ==
    /\ pc = "display"
    /\ snore_threshold_count = 3
    /\ hist.run = 3
    /\ hist.fired = 1
    /\ snore_count = 0

\* C2: an alert is emitted on a window only if that window and the
\* threshold_count - 1 windows before it were classified positive and none of
\* the earlier ones emitted an alert.
C2_AlertOnlyAfterNPositives ==
    hist.fired > 0 => (is_snore /\ hist.run >= snore_threshold_count)

\* C3: a window is positive iff its score is strictly below 1 - threshold
\* (0.05 positive, 0.95 and the boundary 0.5 negative at ratio 0.5); a positive
\* window adds 1 to the counter, a negative one sets it to 0.
C3_ClassifyAndCount ==
    [][ (pc = "predict" /\ pc' = "trigger") =>
          /\ is_snore' <=> (prediction' < 100 - threshold)
          /\ snore_count' = IF is_snore' THEN snore_count + 1 ELSE 0
          /\ (threshold = 50 /\ prediction' = 5) => is_snore'
          /\ (threshold = 50 /\ prediction' \in {50, 95}) => ~is_snore'
      ]_vars

\* a score equal to 1 - threshold classified negative, the counter set to 0
C3_Witness ==
    /\ pc = "trigger"
    /\ threshold = 50
    /\ prediction = 50
    /\ ~is_snore
    /\ snore_count = 0
    /\ hist.run = 0

\* C4: every configured threshold_count is >= 1, so no alert is emitted on a
\* window classified negative.
C4_ThresholdAtLeastOne ==
    /\ snore_threshold_count >= 1
    /\ hist.fired > 0 => is_snore

\* C5: an error raised by the read, by feature extraction or inference, or by
\* the alert callback is caught in its iteration: the thread is in the inner
\* handler with is_running and the stream untouched, and the handler leads to
\* the next evaluation of the loop condition.
C5_CycleErrorContained ==
    /\ [] ( (hist.err # "none" /\ hist.exit_cause = "none") =>
              /\ pc = "except"
              /\ hist.stop_requested \/ (is_running /\ audio_stream = "active") )
    /\ [][ (pc = "except" /\ pc' \notin {"except", "finally"}) =>
              /\ pc' = "loop_head"
              /\ is_running' = is_running
              /\ audio_stream' = audio_stream ]_vars
    /\ [][ (pc \in {"read", "predict", "callback"} /\ pc' = "except") =>
              /\ is_running' = is_running
              /\ audio_stream' = audio_stream ]_vars

\* the callback raised and the session is still running on an open stream
C5_Witness ==
    /\ pc = "except"
    /\ hist.err = "callback"
    /\ is_running
    /\ audio_stream = "active"

C7_RetryBounded ==
    ~ (pc = "read" /\ hist.read_failures > ReadRetryBound)

\* C8: when start_detection returns after the loop ran, however the loop
\* ended, stop_detection has run: is_running is False, the stream is closed
\* and PyAudio is terminated.
C8_LoopEndReleasesCapture ==
    (pc = "returned" /\ ~hist.open_failed) =>
        /\ ~is_running
        /\ audio_stream = "closed"
        /\ pyaudio_instance = "terminated"
        /\ hist.exit_cause \in {"stop", "interrupt", "runtime_error"}

\* the loop ended by a runtime error that followed a caught per-cycle error
C8_Witness ==
    /\ pc = "returned"
    /\ hist.exit_cause = "runtime_error"
    /\ ~is_running
    /\ audio_stream = "closed"
    /\ pyaudio_instance = "terminated"

\* C9: when the device cannot be opened, start_detection returns with
\* is_running False and the session has no read, no classified window and no
\* alert.
C9_OpenFailureStopsSession ==
    hist.open_failed =>
        /\ pc = "returned"
        /\ ~is_running
        /\ ~hist.did_read
        /\ ~hist.did_classify
        /\ ~hist.did_alert

\* a session whose open failed
C9_Witness ==
    /\ hist.open_failed
    /\ pc = "returned"
    /\ ~is_running

\* C10: after a stop request or an interrupt the loop condition is never
\* passed again, at most the window of the iteration in progress is
\* classified, and start_detection returns.
C10_StopObservedAtBoundary ==
    /\ [] (hist.classified_after_stop <= 1)
    /\ [][ (hist.stop_requested /\ pc = "loop_head") =>
              pc' \in {"loop_head", "finally"} ]_vars
    /\ (hist.stop_requested ~> pc = "returned")

\* a stop request arrived during an iteration, whose window was classified
C10_Witness ==
    /\ hist.stop_requested
    /\ hist.classified_after_stop = 1
    /\ hist.exit_cause = "stop"
    /\ pc = "returned"

\* C18: a session started by calling start_detection again after
\* stop_detection begins with an empty ring buffer and a counter of 0.
C18_RestartResetsState ==
    (pc = "open" /\ hist.sessions >= 2) =>
        /\ audio_buffer = << >>
        /\ snore_count = 0

---------------------------------------------------------------------------
(* Claims on the ring buffer and the window (BufSpec) *)

\* the last n items of s, in order
LastN(s, n) == [i \in 1..n |-> s[Len(s) - n + i]]
\* C11: after any sequence of pushes the ring buffer is no longer than its
\* capacity and holds exactly the last min(total pushed, capacity) samples,
\* in arrival order: the oldest samples are evicted first.
C11_RingBufferKeepsLatest ==
    /\ Len(audio_buffer) <= buffer_maxlen
    /\ audio_buffer = LastN(hist.all, Min(Len(hist.all), buffer_maxlen))

\* more samples were pushed than the buffer holds, the last push across the
\* capacity
C11_Witness ==
    /\ Len(hist.all) > buffer_maxlen + 1
    /\ Len(audio_buffer) = buffer_maxlen
    /\ audio_buffer[1] # hist.all[1]

\* C12: taking a window is a read: it leaves the buffer as it was, and any
\* number of windows taken with no push in between are the same chunk_size
\* most recent samples.
C12_WindowIsRead ==
    /\ [][(pc = "buffer" /\ pc' = "window") =>
            /\ audio_buffer' = audio_buffer
            /\ audio_chunk' =
                 LastN(audio_buffer, Min(chunk_size, Len(audio_buffer)))]_vars
    /\ [](\A i \in 1..Len(hist.windows) :
            hist.windows[i] =
              LastN(audio_buffer, Min(chunk_size, Len(audio_buffer))))

\* two windows were taken after the same push from a buffer longer than one
\* window
C12_Witness ==
    /\ Len(hist.windows) = 2
    /\ Len(audio_buffer) > chunk_size
    /\ audio_buffer[1] # audio_buffer[Len(audio_buffer) - chunk_size + 1]

\* n zeros
Zeros(n) == [i \in 1..n |-> 0]

\* C13 as stated: a window of fewer than chunk_size samples reaches feature
\* extraction with exactly chunk_size samples, zero-padded on the left: the
\* samples in the last positions, zeros in front.
C13_ShortWindowPaddedLeft ==
    (pc = "padded" /\ Len(hist.raw) < chunk_size) =>
        /\ Len(audio_chunk) = chunk_size
        /\ audio_chunk = Zeros(chunk_size - Len(hist.raw)) \o hist.raw

\* C13 as the code has it: a chunk of fewer than chunk_size samples handed to
\* process_audio_chunk reaches feature extraction with exactly chunk_size
\* samples, zero-padded on the right: the samples first, in order, zeros
\* behind them.  A longer chunk is passed as it is, and the loop never takes
\* a window before chunk_size samples are buffered.
C13_ShortChunkPaddedRight ==
    pc = "padded" =>
        /\ Len(hist.raw) < chunk_size =>
             /\ Len(audio_chunk) = chunk_size
             /\ audio_chunk = hist.raw \o Zeros(chunk_size - Len(hist.raw))
        /\ Len(hist.raw) >= chunk_size => audio_chunk = hist.raw
        /\ ~hist.direct => Len(hist.raw) = chunk_size

\* a short chunk that is not empty was padded
C13_Witness ==
    /\ pc = "padded"
    /\ hist.raw # << >>
    /\ Len(hist.raw) < chunk_size

---------------------------------------------------------------------------
(* Claims on feature extraction (FeatSpec) *)

\* the matrix the extractor has produced, without the batch axis
Output ==
    IF pc = "returned" /\ features.path = "realtime"
    THEN features.x[1] ELSE features.x
\* time columns of the raw feature matrix
RawColumns == Len(hist.combined[1])

\* C14: for a raw feature matrix of c time columns the output of both
\* extractors has exactly TIME_STEPS columns and the rows of the input; its
\* first min(c, TIME_STEPS) columns are those of the normalized features and
\* the columns after the c-th are zero.
C14_OutputHasTimeSteps ==
    pc \in {"fitted", "returned"} =>
        /\ Len(Output) = Len(hist.combined)
        /\ \A i \in 1..Len(Output) :
             /\ Len(Output[i]) = TIME_STEPS
             /\ \A j \in 1..TIME_STEPS :
                  Output[i][j] = IF j <= RawColumns
                                 THEN hist.normalized[i][j]
                                 ELSE Num(0)

\* a real-time window of fewer columns than TIME_STEPS, with a non-zero
\* normalized entry, was padded and returned
C14_Witness ==
    /\ pc = "returned"
    /\ features.path = "realtime"
    /\ RawColumns < TIME_STEPS
    /\ hist.normalized[1][1] # Num(0)
    /\ Output[1][1] = hist.normalized[1][1]

\* an offline file of more columns than TIME_STEPS was truncated
C14_WitnessTruncated ==
    /\ pc = "returned"
    /\ features.path = "offline"
    /\ RawColumns > TIME_STEPS
    /\ hist.normalized[1][1] # hist.normalized[1][RawColumns]

\* the raw feature matrix is constant: np.std is exactly 0
ConstantInput == VarScaled(hist.combined) = 0

\* C15: on both paths, normalizing a tensor whose standard deviation is
\* exactly 0 returns the input unchanged, without NaN or Inf; otherwise the
\* output is (input - mean) / std.
C15_ZeroStdLeavesInput ==
    pc = "normalized" =>
        \A i \in 1..Len(hist.combined) : \A j \in 1..RawColumns :
            /\ ~features.x[i][j].nan
            /\ ~features.x[i][j].inf
            /\ features.x[i][j] =
                 IF ConstantInput THEN Num(hist.combined[i][j])
                 ELSE ZScore(hist.combined, hist.combined[i][j])

---------------------------------------------------------------------------
(* Claims on the entry points and the vibration controller (EntrySpec) *)

\* C16: building a controller of any type never raises when the driver is
\* missing or fails to initialise; the controller returned then drives no
\* hardware, so its vibrate behaves as the simulated one.
C16_CreateNeverRaises ==
    /\ ~entry.create_raised
    /\ (controller # NoController /\ entry.driver # "ok") => ~controller.hw

\* C17: whenever vibrate has returned, also after a failure of the hardware
\* inside it, the actuator is stopped: is_vibrating is False and the motor
\* is off.
C17_VibrateReturnsStopped ==
    (pc = "session" /\ entry.last_vibrate = "returned") =>
        /\ ~controller.is_vibrating
        /\ controller.motor = "off"

\* C19: when realtime_main ends after start_detection was called (the loop
\* ended by a stop request, an interrupt or a runtime error, the open
\* failed, or start_detection raised), vibration_controller.stop() has been
\* invoked, after the capture device was released.
C19_ActuatorReleasedAtShutdown ==
    (entry.name = "realtime_main" /\ pc = "exited" /\ entry.cause # "none") =>
        /\ entry.stop_called
        /\ entry.device_at_stop # "open"
        /\ entry.device # "open"
        /\ ~controller.is_vibrating

\* Ctrl+C arrived while a hardware controller was vibrating; at exit the
\* device is closed and the controller stopped
C19_Witness ==
    /\ entry.name = "realtime_main"
    /\ pc = "exited"
    /\ entry.cause = "interrupt"
    /\ entry.last_vibrate = "interrupted"
    /\ controller.hw
    /\ entry.stop_called
    /\ controller.motor = "off"

\* C20: when the model file does not exist, every entry point ends without
\* loading a model or opening the capture device, with a non-zero exit
\* status.
C20_MissingModelIsFatal ==
    ~entry.model_exists =>
        /\ pc \in {"startup", "exited"}
        /\ ~entry.model_loaded
        /\ entry.device = "none"
        /\ pc = "exited" => entry.status # 0

---------------------------------------------------------------------------
(* Claims on the offline batch (BatchSpec) *)

\* the .wav files of the listing before position n
WavBefore(n) == {k \in 1..(n - 1) : hist.files[k] # "other"}

\* C21: when the spectral computation fails for a file, preprocess_file
\* reports it and returns (None, None) instead of raising, and
\* preprocess_data skips that file and goes on: no exception leaves the
\* batch, every malformed file passed so far was reported and every good one
\* has its feature in the list.
C21_FailedFileSkipped ==
    /\ ~hist.raised
    /\ \A k \in WavBefore(hist.i) :
         IF hist.files[k] = "malformed" THEN k \in hist.reported
         ELSE k \in hist.kept

---------------------------------------------------------------------------
(* Further claims on the detection loop (Spec, FairSpec) *)

\* the samples numbered a+1 .. a+n, in order
Numbered(a, n) == [i \in 1..n |-> a + i]

C23_CounterBelowThreshold ==
    (/\ snore_threshold_count >= 1
     /\ \/ pc = "display"
        \/ pc = "except" /\ hist.err = "callback") =>
        /\ 0 <= snore_count
        /\ snore_count < snore_threshold_count

\* C24: each opened capture stream is stopped and closed exactly once:
\* stop_detection never issues stop_stream / close on a stream that is
\* already closed (here for the stop_detection of start_detection's own
\* finally clause, which can follow a stop_detection from outside).
C24_StreamClosedOnce ==
    [][(pc = "finally" /\ pc' = "returned") => audio_stream # "closed"]_vars

---------------------------------------------------------------------------
(* Claims on the windowing for any chunk duration and overlap (WinSpec) *)

\* C25: for every chunk duration and overlap, once the capture source has
\* delivered at least chunk_size samples every iteration whose read succeeds
\* classifies one window; the window is the chunk_size most recently pushed
\* samples, and consecutive windows advance by hop_size samples.
C25_EveryReadClassifies ==
    /\ [][(/\ hist'.reads = hist.reads + 1
           /\ hist'.read_ok
           /\ hist'.pushed >= hist.chunk_size) => (pc' = "window")]_vars
    /\ []((pc = "loop" /\ hist.ends # << >>) =>
            audio_chunk =
              Numbered(hist.ends[Len(hist.ends)] - hist.chunk_size,
                       hist.chunk_size))
    /\ [](Len(hist.ends) = 2 => hist.ends[2] - hist.ends[1] = hist.hop_size)

---------------------------------------------------------------------------
(* Further claims on feature extraction (FeatSpec) *)

\* C26: for the same configuration both extractors produce a tensor of
\* N_MFCC cepstral rows followed by N_MELS mel rows and TIME_STEPS columns
\* (under the batch axis on the real-time path), by the same steps in the
\* same order: concatenate, normalize, then pad or truncate.
C26_SameShapeAndSteps ==
    pc = "returned" =>
        /\ Len(Output) = N_MFCC + features.n_mels
        /\ \A i \in 1..Len(Output) : Len(Output[i]) = TIME_STEPS
        /\ Output =
             FitTimeSteps(NormalizeGuarded(
                 Concatenate(features.mfcc, features.mel)))

---------------------------------------------------------------------------
(* A further claim on the detection loop (Spec) *)

\* C27: the trigger notice is printed in exactly the cycles in which the
\* alert fired: the test snore_count == snore_threshold_count made after
\* process_audio_chunk has returned is true iff the callback was invoked for
\* this window.
C27_NoticeIffAlert ==
    [][(pc = "display" /\ pc' = "sleep") =>
         (hist'.notice <=> hist.fired > 0)]_vars

============================================================================
